---- MODULE Spec2Model ----
(***************************************************************************)
(* Model of foxhound/transforms.py: the preprocessing transforms SeqPadded,*)
(* LenClip, OneHot, Patch, CenterCrop, SeqPatch and the two character-CNN  *)
(* encoders.  Every transform is a single synchronous call; a call is one  *)
(* action that takes its arguments from bounded sets and records the       *)
(* outcome (a returned value or a raised exception) in ret.                *)
(*                                                                         *)
(* The module is Python 2 code (implicit relative imports, "1/3."), so     *)
(* map() returns a list and round() rounds halves away from zero.          *)
(*                                                                         *)
(* Python lists, strings and array axes are TLA+ sequences: Python index k *)
(* is position k+1.  A 2-D array is a record [shape, data] with data the   *)
(* sequence of its rows.                                                   *)
(***************************************************************************)
EXTENDS Integers, Sequences, FiniteSets, TLC

VARIABLES pc, op, args, ret, rng

vars == <<pc, op, args, ret, rng>>

(* ------------------------------ bounds -------------------------------- *)

\* longest list of samples passed to one call
MaxBatch == 2
\* longest token sequence
MaxLen == 2

(* --------------------------- Python helpers --------------------------- *)

NoValue == "None"

Raise(exc) == [status |-> exc, value |-> NoValue]

Return(v) == [status |-> "ok", value |-> v]

SeqsUpTo(S, n) == UNION {[1..k -> S] : k \in 0..n}

\* [v] * n
Repeat(v, n) == [k \in 1..n |-> v]

\* max() of a non-empty list of integers
PyMax(s) == CHOOSE m \in {s[k] : k \in 1..Len(s)} : \A k \in 1..Len(s) : s[k] <= m

\* np.asarray of a list of equally long lists: shape (len, len of each);
\* of an empty list: the 1-D array of shape (0,)
Asarray(rows) ==
  [shape |-> IF Len(rows) = 0 THEN <<0>> ELSE <<Len(rows), Len(rows[1])>>,
   data |-> rows]

\* fault: the transpose left out
Transpose10Omitted(a) == a

\* ndarray.transpose(1, 0) of a 2-D array
Transpose10(a) ==
  [shape |-> <<a.shape[2], a.shape[1]>>,
   data |-> [r \in 1..a.shape[2] |-> [c \in 1..a.shape[1] |-> a.data[c][r]]]]

(* ------------------------------ SeqPadded ----------------------------- *)

Placements == {"front", "back", "middle"}

\* fault: the two branches exchanged
PadOneMisplaced(seq, n_pad, placement) ==
  IF placement = "back" THEN Repeat(0, n_pad) \o seq ELSE seq \o Repeat(0, n_pad)

\* fault: the padding put after the first token
PadOneInside(seq, n_pad, placement) ==
  IF Len(seq) = 0 THEN Repeat(0, n_pad)
  ELSE <<Head(seq)>> \o Repeat(0, n_pad) \o Tail(seq)

\* the loop body: one sequence padded with n_pad zeros
PadOne(seq, n_pad, placement) ==
  IF placement = "front" THEN Repeat(0, n_pad) \o seq ELSE seq \o Repeat(0, n_pad)

\* fault: an empty list answered with an empty batch
SeqPaddedLenient(seqs, placement) ==
  LET lens == [j \in 1..Len(seqs) |-> Len(seqs[j])] IN
  IF Len(lens) = 0 THEN Return([shape |-> <<0, 0>>, data |-> <<>>])
  ELSE LET max_len == PyMax(lens)
           seqs_padded == [j \in 1..Len(seqs) |->
                             PadOne(seqs[j], max_len - lens[j], placement)]
       IN Return(Transpose10(Asarray(seqs_padded)))

\* max() of the empty list of lengths raises ValueError
SeqPadded(seqs, placement) ==
  LET lens == [j \in 1..Len(seqs) |-> Len(seqs[j])] IN
  IF Len(lens) = 0 THEN Raise("ValueError")
  ELSE LET max_len == PyMax(lens)
           seqs_padded == [j \in 1..Len(seqs) |->
                             PadOne(seqs[j], max_len - lens[j], placement)]
       IN Return(Transpose10(Asarray(seqs_padded)))

\* token ids of the calls: the pad value 0 and two other ids
Tokens == {0, 1, 2}

TokenSeqs == SeqsUpTo(Tokens, MaxLen)

SeqPaddedCall ==
  /\ pc = "idle"
  /\ \E seqs \in SeqsUpTo(TokenSeqs, MaxBatch), placement \in Placements :
       /\ op' = "SeqPadded"
       /\ args' = [seqs |-> seqs, placement |-> placement]
       /\ ret' = SeqPadded(seqs, placement)
  /\ rng' = <<>>
  /\ pc' = "done"

(* ------------------------------- LenClip ------------------------------ *)

\* longest text passed to LenClip and to the character encoders
MaxStr == 3

\* characters of the texts: two letters and the word separator
Chars == {"a", "b", " "}

Texts == SeqsUpTo(Chars, MaxStr)

\* x.split(' '): the pieces between single spaces, empty pieces kept
Split(x) ==
  LET f[k \in 0..Len(x)] ==
        IF k = 0 THEN << <<>> >>
        ELSE IF x[k] = " " THEN Append(f[k - 1], <<>>)
        ELSE [f[k - 1] EXCEPT ![Len(f[k - 1])] = Append(@, x[k])]
  IN f[Len(x)]

\* ' '.join(words)
Join(words) ==
  LET f[k \in 0..Len(words)] ==
        IF k = 0 THEN <<>>
        ELSE IF k = 1 THEN words[1]
        ELSE f[k - 1] \o <<" ">> \o words[k]
  IN f[Len(words)]

\* np.cumsum(lens).tolist()
CumSum(s) ==
  LET f[k \in 0..Len(s)] == IF k = 0 THEN 0 ELSE f[k - 1] + s[k]
  IN [k \in 1..Len(s) |-> f[k]]

\* lens = [len(word)+1 ...]; lens[0] -= 1; lens[-1] -= 1
WordLens(words) ==
  LET a == [k \in 1..Len(words) |-> Len(words[k]) + 1]
      b == [a EXCEPT ![1] = @ - 1]
  IN [b EXCEPT ![Len(b)] = @ - 1]

\* [w for w, l in zip(words, lens) if l < n]
KeepBelow(words, lens, n) ==
  LET f[k \in 0..Len(words)] ==
        IF k = 0 THEN <<>>
        ELSE IF lens[k] < n THEN Append(f[k - 1], words[k])
        ELSE f[k - 1]
  IN f[Len(words)]

\* the loop body of LenClip for one text
ClipOne(x, n) ==
  LET words == Split(x)
      lens == CumSum(WordLens(words))
  IN Join(KeepBelow(words, lens, n))

LenClip(X, n) == Return([s \in 1..Len(X) |-> ClipOne(X[s], n)])

LenClipCall ==
  /\ pc = "idle"
  /\ \E X \in SeqsUpTo(Texts, MaxBatch), n \in 0..(MaxStr + 1) :
       /\ op' = "LenClip"
       /\ args' = [X |-> X, n |-> n]
       /\ ret' = LenClip(X, n)
  /\ rng' = <<>>
  /\ pc' = "done"

(* -------------------------------- OneHot ------------------------------ *)

\* largest class index passed to OneHot
MaxClass == 2

\* an omitted optional argument (n=None), and a given one
None == <<>>

Some(v) == <<v>>

NegativeClasses == {-1, 0, 1}

\* fault: the assignment of the ones left out
OneHotFillOnly(X, n, negative_class) ==
  LET nn == IF n = None THEN PyMax(X) + 1 ELSE n[1]
  IN IF n = None /\ Len(X) = 0 THEN Raise("ValueError")
     ELSE Return([shape |-> <<Len(X), nn>>,
                  data |-> [i \in 1..Len(X) |-> [c \in 1..nn |-> negative_class]]])

\* X is taken as a 1-D integer array.  np.max of an empty array raises
\* ValueError; an index outside -n..n-1 raises IndexError; a negative index
\* counts from the last column.
OneHot(X, n, negative_class) ==
  IF n = None /\ Len(X) = 0 THEN Raise("ValueError")
  ELSE LET nn == IF n = None THEN PyMax(X) + 1 ELSE n[1] IN
       IF \E i \in 1..Len(X) : X[i] >= nn \/ X[i] < 0 - nn THEN Raise("IndexError")
       ELSE Return([shape |-> <<Len(X), nn>>,
                    data |-> [i \in 1..Len(X) |-> [c \in 1..nn |->
                       IF c - 1 = (IF X[i] < 0 THEN X[i] + nn ELSE X[i])
                       THEN 1 ELSE negative_class]]])

OneHotCall ==
  /\ pc = "idle"
  /\ \E X \in SeqsUpTo((-1)..MaxClass, MaxLen),
        n \in {None} \cup {Some(k) : k \in 0..(MaxClass + 1)},
        negative_class \in NegativeClasses :
       /\ op' = "OneHot"
       /\ args' = [X |-> X, n |-> n, negative_class |-> negative_class]
       /\ ret' = OneHot(X, n, negative_class)
  /\ rng' = <<>>
  /\ pc' = "done"

(* ----------------------- character-CNN encoders ----------------------- *)

\* the names transforms.py binds at module level: its imports and its defs
ModuleNames ==
  {"np", "pd", "Counter", "numpy_array", "np_rng", "py_rng",
   "LenClip", "OneHot", "SeqPadded", "FlatToImg", "ImgToConv", "Standardize",
   "ZeroOneScale", "Fliplr", "Reflect", "FlipVertical", "FlipHorizontal",
   "Rot90", "ColorShift", "Patch", "SeqDelete", "SeqPatch", "CenterCrop",
   "StringToCharacterCNNRep", "StringToCharacterCNNRNNRep"}

\* character-to-id mappings
Encoders ==
  {[c \in {"a"} |-> 1], [c \in {"a", "b"} |-> IF c = "a" THEN 2 ELSE 1]}

\* With X empty the loop does not run and the empty array is reshaped.
\* Otherwise the first iteration evaluates the global name one_hot, which
\* the module does not bind.
StringToCharacterCNNRep(X, max_len, encoder) ==
  LET nc == Cardinality(DOMAIN encoder) + 1 IN
  IF Len(X) = 0 THEN Return([shape |-> <<0, 1, max_len, nc>>, data |-> <<>>])
  ELSE IF "one_hot" \notin ModuleNames THEN Raise("NameError")
  ELSE Raise("NotModelled")

\* max() of the empty list of lengths raises ValueError
StringToCharacterCNNRNNRep(X, encoder) ==
  IF Len(X) = 0 THEN Raise("ValueError")
  ELSE IF "one_hot" \notin ModuleNames THEN Raise("NameError")
  ELSE Raise("NotModelled")

StringToCharacterCNNRepCall ==
  /\ pc = "idle"
  /\ \E X \in SeqsUpTo(Texts, MaxBatch), max_len \in 0..MaxStr, encoder \in Encoders :
       /\ op' = "StringToCharacterCNNRep"
       /\ args' = [X |-> X, max_len |-> max_len, encoder |-> encoder]
       /\ ret' = StringToCharacterCNNRep(X, max_len, encoder)
  /\ rng' = <<>>
  /\ pc' = "done"

StringToCharacterCNNRNNRepCall ==
  /\ pc = "idle"
  /\ \E X \in SeqsUpTo(Texts, MaxBatch), encoder \in Encoders :
       /\ op' = "StringToCharacterCNNRNNRep"
       /\ args' = [X |-> X, encoder |-> encoder]
       /\ ret' = StringToCharacterCNNRNNRep(X, encoder)
  /\ rng' = <<>>
  /\ pc' = "done"

(* ---------------------- Python slices and py_rng --------------------- *)

Min(a, b) == IF a <= b THEN a ELSE b

Max(a, b) == IF a >= b THEN a ELSE b

\* a slice bound on an axis of length len: negative bounds count from the
\* end, and every bound is clamped to 0..len
SliceBound(len, v) == IF v < 0 THEN Max(v + len, 0) ELSE Min(v, len)

\* x[start:stop] of a list
SliceSeq(x, start, stop) ==
  LET lo == SliceBound(Len(x), start)
      hi == SliceBound(Len(x), stop)
  IN SubSeq(x, lo + 1, hi)

\* x[r0:r1, c0:c1] of a 2-D array
Slice2D(x, r0, r1, c0, c1) ==
  LET rlo == SliceBound(x.shape[1], r0)
      rhi == Max(SliceBound(x.shape[1], r1), rlo)
      clo == SliceBound(x.shape[2], c0)
      chi == Max(SliceBound(x.shape[2], c1), clo)
  IN [shape |-> <<rhi - rlo, chi - clo>>,
      data |-> [r \in 1..(rhi - rlo) |-> [c \in 1..(chi - clo) |->
                  x.data[rlo + r][clo + c]]]]

\* the values py_rng.randint(a, b) can return: a..b, both ends included (Rot90
\* draws its four quarter turns with randint(0, 3)); it raises ValueError
\* when the range is empty
randint(a, b) == a..b

\* int(round(d / 2.)): halves are rounded away from zero
RoundHalf(d) ==
  IF d % 2 = 0 THEN d \div 2
  ELSE IF d > 0 THEN (d + 1) \div 2
  ELSE (d - 1) \div 2

(* ------------------------- Patch and CenterCrop ----------------------- *)

\* largest image width and height
MaxDim == 2

\* an image of shape (w, h): the pixel at row r, column c (counted from 0)
\* is tagged <<r, c>>, so that a crop shows where each of its pixels is from
Image(w, h) ==
  [shape |-> <<w, h>>,
   data |-> [r \in 1..w |-> [c \in 1..h |-> <<r - 1, c - 1>>]]]

Images == {Image(w, h) : w \in 1..MaxDim, h \in 1..MaxDim}

CropSizes == 1..(MaxDim + 1)

\* the images before the first one whose randint range is empty
PatchReach(X, pw, ph) ==
  {k \in 1..Len(X) :
     \A q \in 1..(k - 1) : X[q].shape[1] >= pw /\ X[q].shape[2] >= ph}

\* draws[k] = <<i, j>>: what py_rng returns for image k; 0 stands for a draw
\* that is never made
PatchDraws(X, pw, ph) ==
  {d \in [1..Len(X) -> (0..MaxDim) \X (0..MaxDim)] :
     \A k \in 1..Len(X) :
       LET w == X[k].shape[1]
           h == X[k].shape[2]
       IN /\ d[k][1] \in (IF k \in PatchReach(X, pw, ph) /\ w >= pw
                          THEN randint(0, w - pw) ELSE {0})
          /\ d[k][2] \in (IF k \in PatchReach(X, pw, ph) /\ w >= pw /\ h >= ph
                          THEN randint(0, h - ph) ELSE {0})}

Patch(X, pw, ph, draws) ==
  IF \E k \in 1..Len(X) : X[k].shape[1] < pw \/ X[k].shape[2] < ph
  THEN Raise("ValueError")
  ELSE Return([k \in 1..Len(X) |->
                 LET i == draws[k][1]
                     j == draws[k][2]
                 IN Slice2D(X[k], i, i + pw, j, j + pw)])

PatchCall ==
  /\ pc = "idle"
  /\ \E X \in SeqsUpTo(Images, MaxBatch), pw \in CropSizes, ph \in CropSizes :
       \E draws \in PatchDraws(X, pw, ph) :
         /\ op' = "Patch"
         /\ args' = [X |-> X, pw |-> pw, ph |-> ph]
         /\ rng' = draws
         /\ ret' = Patch(X, pw, ph, draws)
  /\ pc' = "done"

CenterCrop(X, pw, ph) ==
  Return([k \in 1..Len(X) |->
            LET i == RoundHalf(X[k].shape[1] - pw)
                j == RoundHalf(X[k].shape[2] - ph)
            IN Slice2D(X[k], i, i + pw, j, j + pw)])

CenterCropCall ==
  /\ pc = "idle"
  /\ \E X \in SeqsUpTo(Images, MaxBatch), pw \in CropSizes, ph \in CropSizes :
       /\ op' = "CenterCrop"
       /\ args' = [X |-> X, pw |-> pw, ph |-> ph]
       /\ ret' = CenterCrop(X, pw, ph)
  /\ rng' = <<>>
  /\ pc' = "done"

(* ------------------------------- SeqPatch ----------------------------- *)

\* longest sequence passed to SeqPatch
MaxPatchLen == 4

\* p_size is the fraction num/PDen
PDen == 4

Fractions == {<<num, PDen>> : num \in 0..PDen}

\* the sequences of SeqPatch calls: element k is k, so that a slice shows
\* where it was cut from
PatchSeqs == {[k \in 1..l |-> k] : l \in 0..MaxPatchLen}

\* int(p_size * l)
PatchLen(p_size, l) == (p_size[1] * l) \div p_size[2]

\* fault: the start drawn from 0..l instead of 0..l-n
SeqPatchDrawsWholeRange(X, p_size) ==
  {d \in [1..Len(X) -> 0..MaxPatchLen] :
     \A k \in 1..Len(X) : d[k] \in randint(0, Len(X[k]))}

\* draws[k]: what py_rng.randint(0, l-n) returns for sequence k
SeqPatchDraws(X, p_size) ==
  {d \in [1..Len(X) -> 0..MaxPatchLen] :
     \A k \in 1..Len(X) :
       d[k] \in randint(0, Len(X[k]) - PatchLen(p_size, Len(X[k])))}

SeqPatch(X, p_size, draws) ==
  Return([k \in 1..Len(X) |->
            LET n == PatchLen(p_size, Len(X[k]))
                i == draws[k]
            IN SliceSeq(X[k], i, i + n)])

SeqPatchCall ==
  /\ pc = "idle"
  /\ \E X \in SeqsUpTo(PatchSeqs, MaxBatch), p_size \in Fractions :
       \E draws \in SeqPatchDraws(X, p_size) :
         /\ op' = "SeqPatch"
         /\ args' = [X |-> X, p_size |-> p_size]
         /\ rng' = draws
         /\ ret' = SeqPatch(X, p_size, draws)
  /\ pc' = "done"

(* ------------------------------- caller ------------------------------- *)

Init ==
  /\ pc = "idle"
  /\ op = "none"
  /\ args = <<>>
  /\ ret = Raise("none")
  /\ rng = <<>>

\* the caller takes the outcome and is ready for the next call
Idle ==
  /\ pc = "done"
  /\ pc' = "idle"
  /\ op' = "none"
  /\ args' = <<>>
  /\ ret' = Raise("none")
  /\ rng' = <<>>

NextPad == SeqPaddedCall \/ Idle

SpecPad == Init /\ [][NextPad]_vars

NextText == LenClipCall \/ StringToCharacterCNNRepCall
              \/ StringToCharacterCNNRNNRepCall \/ Idle

SpecText == Init /\ [][NextText]_vars

NextImg == PatchCall \/ CenterCropCall \/ Idle

SpecImg == Init /\ [][NextImg]_vars

NextSeqPatch == SeqPatchCall \/ Idle

SpecSeqPatch == Init /\ [][NextSeqPatch]_vars

NextOneHot == OneHotCall \/ Idle

SpecOneHot == Init /\ [][NextOneHot]_vars

(* ======================= properties of SeqPadded ====================== *)

PadCall == pc = "done" /\ op = "SeqPadded"

\* the longest length among the sequences of a non-empty list
LongestLen(seqs) ==
  CHOOSE m \in 0..MaxLen :
    /\ \E j \in 1..Len(seqs) : Len(seqs[j]) = m
    /\ \A j \in 1..Len(seqs) : Len(seqs[j]) <= m

\* column j of a 2-D array, read top to bottom
Column(a, j) == [r \in 1..a.shape[1] |-> a.data[r][j]]

\* C1: for a non-empty list of sequences and any placement, SeqPadded returns
\* a 2-D array with max(len(s)) rows and len(sequences) columns, every column
\* holding exactly max_len entries.
C1_PadShape ==
  (PadCall /\ Len(args.seqs) > 0) =>
     /\ ret.status = "ok"
     /\ ret.value.shape = <<LongestLen(args.seqs), Len(args.seqs)>>
     /\ Len(ret.value.data) = LongestLen(args.seqs)
     /\ \A r \in 1..Len(ret.value.data) : Len(ret.value.data[r]) = Len(args.seqs)

C1_Witness ==
  /\ PadCall
  /\ Len(args.seqs) = 2
  /\ Len(args.seqs[1]) = 0
  /\ Len(args.seqs[2]) = 1
  /\ ret.status = "ok"
  /\ ret.value.shape = <<1, 2>>

\* C2: column j is, for placement "front", max_len - len(sequence j) zeros
\* followed by sequence j, and for every other placement sequence j followed
\* by the zeros; columns are in input order and a sequence of length max_len
\* is reproduced with no padding.
C2_PadColumns ==
  (PadCall /\ Len(args.seqs) > 0) =>
     /\ ret.status = "ok"
     /\ \A j \in 1..Len(args.seqs) :
          LET seq == args.seqs[j]
              col == Column(ret.value, j)
              n_pad == LongestLen(args.seqs) - Len(seq)
          IN /\ Len(col) = n_pad + Len(seq)
             /\ IF args.placement = "front"
                THEN /\ \A r \in 1..n_pad : col[r] = 0
                     /\ \A k \in 1..Len(seq) : col[n_pad + k] = seq[k]
                ELSE /\ \A k \in 1..Len(seq) : col[k] = seq[k]
                     /\ \A r \in 1..n_pad : col[Len(seq) + r] = 0
             /\ (n_pad = 0 => col = seq)

C2_Witness ==
  /\ PadCall
  /\ args.placement = "middle"
  /\ args.seqs = << <<1>>, <<2, 1>> >>
  /\ ret.status = "ok"
  /\ ret.value.data = << <<1, 2>>, <<0, 1>> >>

\* positions of a column that hold a real (non-sentinel) value
RealAt(col) == {r \in 1..Len(col) : col[r] # 0}

FirstReal(col) == CHOOSE r \in RealAt(col) : \A q \in RealAt(col) : r <= q

LastReal(col) == CHOOSE r \in RealAt(col) : \A q \in RealAt(col) : q <= r

\* the non-sentinel run of a column: from its first to its last real value
RealRun(col) ==
  IF RealAt(col) = {} THEN <<>> ELSE SubSeq(col, FirstReal(col), LastReal(col))

\* the sentinel lies only on the side the placement names, and the run
\* between is the original sequence
PadOutside(col, seq, placement) ==
  /\ RealRun(col) = seq
  /\ \A r \in 1..Len(col) : col[r] = 0 =>
        IF placement = "front"
        THEN \A q \in RealAt(col) : r < q
        ELSE \A q \in RealAt(col) : q < r

PositiveTokens(seqs) ==
  \A j \in 1..Len(seqs) : \A k \in 1..Len(seqs[j]) : seqs[j][k] > 0

InvalidInputError == {"ValueError", "IndexError"}

\* C4: SeqPadded of an empty list fails with an invalid-input error and
\* returns no batch, for every placement.
C4_PadEmptyFails ==
  (PadCall /\ Len(args.seqs) = 0) =>
     /\ ret.status \in InvalidInputError
     /\ ret.value = NoValue

C4_Witness ==
  /\ PadCall
  /\ args.seqs = <<>>
  /\ args.placement = "front"
  /\ ret.status = "ValueError"

(* ======================== properties of LenClip ======================= *)

\* the first k words of a text, joined by single spaces
LeadingWords(x) == {Join(SubSeq(Split(x), 1, k)) : k \in 0..Len(Split(x))}

\* C5: for every text x and clip length n (taken positive), LenClip returns a
\* leading run of x's space-separated words, joined by single spaces, whose
\* length is strictly less than n; one output per input, in input order.
C5_ClipBelowN ==
  (pc = "done" /\ op = "LenClip" /\ args.n > 0) =>
     /\ ret.status = "ok"
     /\ Len(ret.value) = Len(args.X)
     /\ \A s \in 1..Len(args.X) :
          /\ ret.value[s] \in LeadingWords(args.X[s])
          /\ Len(ret.value[s]) < args.n

(* ================== properties of Patch and CenterCrop ================ *)

CropFits(X, pw, ph) ==
  \A k \in 1..Len(X) : pw <= X[k].shape[1] /\ ph <= X[k].shape[2]

\* C6: when the crop fits every image, CenterCrop returns one crop per image
\* in input order, each the pw-by-ph window of its image whose first corner
\* is at (round((w-pw)/2), round((h-ph)/2)).
C6_CenterWindow ==
  (pc = "done" /\ op = "CenterCrop" /\ CropFits(args.X, args.pw, args.ph)) =>
     /\ ret.status = "ok"
     /\ Len(ret.value) = Len(args.X)
     /\ \A k \in 1..Len(args.X) :
          LET i == RoundHalf(args.X[k].shape[1] - args.pw)
              j == RoundHalf(args.X[k].shape[2] - args.ph)
          IN /\ ret.value[k].shape = <<args.pw, args.ph>>
             /\ \A r \in 1..args.pw : \A c \in 1..args.ph :
                  ret.value[k].data[r][c] = <<i + r - 1, j + c - 1>>

\* C7: Patch and CenterCrop fail with an invalid-input error, producing no
\* crop list, whenever the crop is wider or higher than some input image.
C7_OversizeCropFails ==
  (pc = "done" /\ op \in {"Patch", "CenterCrop"}
     /\ ~CropFits(args.X, args.pw, args.ph)) =>
     /\ ret.status \in InvalidInputError
     /\ ret.value = NoValue

(* ========================= properties of OneHot ======================= *)

\* the class count of a call: n when given, else the largest value plus one
ClassCount(X, n) ==
  IF n # None THEN n[1]
  ELSE 1 + (CHOOSE m \in (-1)..MaxClass :
              /\ \E i \in 1..Len(X) : X[i] = m
              /\ \A i \in 1..Len(X) : X[i] <= m)

\* X is in the domain of the claim: with n omitted X is not empty, and every
\* value is in 0..n-1
OneHotDomain(X, n) ==
  /\ n = None => Len(X) > 0
  /\ \A i \in 1..Len(X) : X[i] >= 0 /\ X[i] < ClassCount(X, n)

\* C8: for X with values in 0..n-1, OneHot returns a len(X)-by-n array whose
\* row i holds 1 at column X[i] and the negative-class value in every other
\* column; with n omitted the class count is max(X) + 1.
C8_OneHotRows ==
  (pc = "done" /\ op = "OneHot" /\ OneHotDomain(args.X, args.n)) =>
     /\ ret.status = "ok"
     /\ ret.value.shape = <<Len(args.X), ClassCount(args.X, args.n)>>
     /\ Len(ret.value.data) = Len(args.X)
     /\ \A i \in 1..Len(args.X) :
          /\ Len(ret.value.data[i]) = ClassCount(args.X, args.n)
          /\ ret.value.data[i][args.X[i] + 1] = 1
          /\ \A c \in 1..ClassCount(args.X, args.n) :
               c # args.X[i] + 1 => ret.value.data[i][c] = args.negative_class

C8_Witness ==
  /\ pc = "done"
  /\ op = "OneHot"
  /\ args.X = <<0, 2>>
  /\ args.n = None
  /\ args.negative_class = 0
  /\ ret.status = "ok"
  /\ ret.value.data = << <<1, 0, 0>>, <<0, 0, 1>> >>

(* ======================== properties of SeqPatch ====================== *)

\* C9: for every list of sequences, every fraction p_size in [0,1] and every
\* outcome of the random draws, SeqPatch returns one sequence per input in
\* input order, each the slice x[i:i+n] of its input with exactly
\* n = int(p_size * len(x)) elements and 0 <= i <= len(x) - n.
C9_SeqPatchInBounds ==
  (pc = "done" /\ op = "SeqPatch") =>
     /\ ret.status = "ok"
     /\ Len(ret.value) = Len(args.X)
     /\ \A k \in 1..Len(args.X) :
          LET x == args.X[k]
              n == (args.p_size[1] * Len(x)) \div args.p_size[2]
              i == rng[k]
          IN /\ 0 <= i
             /\ i <= Len(x) - n
             /\ Len(ret.value[k]) = n
             /\ \A q \in 1..n : ret.value[k][q] = x[i + q]

C9_Witness ==
  /\ pc = "done"
  /\ op = "SeqPatch"
  /\ args.X = << <<1, 2, 3, 4>>, <<1>> >>
  /\ args.p_size = <<2, PDen>>
  /\ rng = <<2, 0>>
  /\ ret.status = "ok"
  /\ ret.value = << <<3, 4>>, <<>> >>

(* ================ properties of the character-CNN encoders ============ *)

\* the id of a character: 0 when the mapping does not hold it
CharId(encoder, ch) == IF ch \in DOMAIN encoder THEN encoder[ch] ELSE 0

\* row k of sample x, whose characters start after n_front rows of zeros
CharRow(encoder, x, n_front, k, nc) ==
  [c \in 1..nc |->
     IF k > n_front /\ k <= n_front + Len(x)
          /\ c - 1 = CharId(encoder, x[k - n_front])
     THEN 1 ELSE 0]

CharArray(X, encoder, max_len, front) ==
  LET nc == Cardinality(DOMAIN encoder) + 1 IN
  [shape |-> <<Len(X), 1, max_len, nc>>,
   data |-> [s \in 1..Len(X) |-> [k \in 1..max_len |->
               CharRow(encoder, X[s], IF front THEN max_len - Len(X[s]) ELSE 0,
                       k, nc)]]]

LongestText(X) ==
  CHOOSE m \in 0..MaxStr :
    /\ \E s \in 1..Len(X) : Len(X[s]) = m
    /\ \A s \in 1..Len(X) : Len(X[s]) <= m

\* C10: for strings no longer than max_len, StringToCharacterCNNRep returns
\* the array of shape (len(X), 1, max_len, len(encoder)+1) whose row k of
\* sample s is the one-hot vector of character k's id (0 for a character the
\* mapping lacks) and is all zeros from row len(X[s]) on;
\* StringToCharacterCNNRNNRep is the same with max_len the longest string and
\* the zero rows at the front.
C10_CharRows ==
  /\ (pc = "done" /\ op = "StringToCharacterCNNRep"
        /\ \A s \in 1..Len(args.X) : Len(args.X[s]) <= args.max_len) =>
       /\ ret.status = "ok"
       /\ ret.value = CharArray(args.X, args.encoder, args.max_len, FALSE)
  /\ (pc = "done" /\ op = "StringToCharacterCNNRNNRep" /\ Len(args.X) > 0) =>
       /\ ret.status = "ok"
       /\ ret.value = CharArray(args.X, args.encoder, LongestText(args.X), TRUE)

====
